---- MODULE Spec2Model ----
(***************************************************************************)
(* School clustering API (src/model/clustering_api.py).                    *)
(*                                                                         *)
(* The module-level model load, the classifiers, predict_single and the    *)
(* request handlers are modelled as a state machine.  Python strings that  *)
(* the code inspects character by character (names, municipalities, the    *)
(* rule keywords) are sequences of one-character strings; tags that are    *)
(* only compared or copied (model_used, cluster names, colours, messages)  *)
(* are TLA+ strings.  The vectorizer and the k-means model are external:   *)
(* one call to them either raises or yields an integer, chosen             *)
(* nondeterministically at the call.                                       *)
(***************************************************************************)
EXTENDS Integers, Sequences, FiniteSets, TLC

(***************************************************************************)
(* Bounds of the model.                                                    *)
(***************************************************************************)
\* longest batch submitted to POST /cluster-batch
MaxBatch == 4

\* the external model answers an integer in -MlIdBound .. MlIdBound
MlIdBound == 4

(***************************************************************************)
(* String literals of the program and of the requests.                     *)
(***************************************************************************)
KW_inabanga ==
    <<"i","n","a","b","a","n","g","a">>

KW_dagohoy ==
    <<"d","a","g","o","h","o","y">>

KW_tubigon ==
    <<"t","u","b","i","g","o","n">>

KW_cawayanan ==
    <<"c","a","w","a","y","a","n","a","n">>

KW_cabulijan ==
    <<"c","a","b","u","l","i","j","a","n">>

Unknown ==
    <<"U","n","k","n","o","w","n">>

\* the four sample records of GET /test
N_CLARIN ==
    <<"C","L","A","R","I","N"," ","N","A","T","I","O","N","A","L"," ","S","C","H","O","O","L"," ","O","F"," ","F","I","S","H","E","R","I","E","S">>

M_CLARIN ==
    <<"C","L","A","R","I","N",","," ","B","O","H","O","L">>

N_TUBIGON ==
    <<"T","U","B","I","G","O","N"," ","W","E","S","T"," ","C","E","N","T","R","A","L"," ","H","I","G","H"," ","S","C","H","O","O","L">>

M_TUBIGON ==
    <<"T","U","B","I","G","O","N",","," ","B","O","H","O","L">>

N_INABANGA ==
    <<"I","N","A","B","A","N","G","A"," ","H","I","G","H"," ","S","C","H","O","O","L">>

M_INABANGA ==
    <<"I","N","A","B","A","N","G","A",","," ","B","O","H","O","L">>

N_TEST ==
    <<"T","E","S","T"," ","S","C","H","O","O","L">>

M_UNKNOWN ==
    <<"U","N","K","N","O","W","N"," ","L","O","C","A","T","I","O","N">>

test_schools ==
    << [name |-> N_CLARIN,   municipality |-> M_CLARIN],
       [name |-> N_TUBIGON,  municipality |-> M_TUBIGON],
       [name |-> N_INABANGA, municipality |-> M_INABANGA],
       [name |-> N_TEST,     municipality |-> M_UNKNOWN] >>

\* further request inputs: mixed case, a keyword inside a longer word, both
\* keyword sets at once, a keyword split over the two fields, empty fields
N_Dagohoy ==
    <<"D","a","g","o","h","o","y">>

N_Cawayanan ==
    <<"C","a","w","a","y","a","n","a","n"," ","H","S">>

N_cabulijan ==
    <<"x","c","a","b","u","l","i","j","a","n","s">>

N_Both ==
    <<"T","u","b","i","g","o","n","-","I","n","a","b","a","n","g","a"," ","A","n","n","e","x">>

N_TUBI ==
    <<"T","U","B","I">>

M_GON ==
    <<"G","O","N">>

Names ==
    { <<>>, N_CLARIN, N_TUBIGON, N_INABANGA, N_TEST,
      N_Dagohoy, N_Cawayanan, N_cabulijan, N_Both, N_TUBI }

Municipalities ==
    { <<>>, M_CLARIN, M_TUBIGON, M_INABANGA, M_UNKNOWN, M_GON }

\* class School(BaseModel): two str fields, either may be empty
School ==
    [name : Names, municipality : Municipalities]

\* the records a batch request is built from
BatchSchools ==
    { [name |-> <<>>,       municipality |-> <<>>],
      [name |-> N_Dagohoy,  municipality |-> M_GON] }

RECURSIVE SeqsUpTo(_, _)
SeqsUpTo(S, n) ==
    IF n = 0 THEN { <<>> }
    ELSE LET shorter == SeqsUpTo(S, n - 1)
         IN  shorter \cup { Append(q, x) : q \in { r \in shorter : Len(r) = n - 1 }, x \in S }

\* class BatchRequest(BaseModel): schools: List[School]
BatchRequest ==
    SeqsUpTo(BatchSchools, MaxBatch)

(***************************************************************************)
(* str.lower(), the in operator on str, x or "Unknown".                    *)
(***************************************************************************)
UPPER ==
    <<"A","B","C","D","E","F","G","H","I","J","K","L","M","N","O","P","Q","R","S","T","U","V","W","X","Y","Z">>

LOWER ==
    <<"a","b","c","d","e","f","g","h","i","j","k","l","m","n","o","p","q","r","s","t","u","v","w","x","y","z">>

LowerChar(c) ==
    IF \E i \in 1..Len(UPPER) : UPPER[i] = c
    THEN LOWER[CHOOSE i \in 1..Len(UPPER) : UPPER[i] = c]
    ELSE c

lower(text) ==
    [i \in 1..Len(text) |-> LowerChar(text[i])]

\* needle in text
Contains(text, needle) ==
    \E i \in 0..(Len(text) - Len(needle)) :
        SubSeq(text, i + 1, i + Len(needle)) = needle

\* field or "Unknown": the empty string is falsy
OrUnknown(field) ==
    IF field = <<>> THEN Unknown ELSE field

(***************************************************************************)
(* State.                                                                  *)
(***************************************************************************)
VARIABLES
    pc,             \* position of the process: the startup steps, then "idle"
                    \* (no request), "batch_loop", "test_loop" or "responded"
    model,          \* module global: "unbound" or "loaded"
    vectorizer,     \* module global: "unbound" or "loaded"
    MODEL_LOADED,   \* module global: "unbound", "True" or "False"
    flagWrites,     \* history: the values assigned to MODEL_LOADED, in order
    request,        \* the request being served, or served last
    calls,          \* history: the predict_single calls of that request
    results,        \* local of get_cluster_batch and of test_endpoint
    cluster_counts, \* get_cluster_batch local
    successful,     \* get_cluster_batch local
    response        \* what the last handler returned (or the exception it raised)

vars ==
    << pc, model, vectorizer, MODEL_LOADED, flagWrites, request, calls,
       results, cluster_counts, successful, response >>

(***************************************************************************)
(* The external vectorizer/model: one call raises or yields an integer.    *)
(***************************************************************************)
MlIds ==
    (0 - MlIdBound) .. MlIdBound

MLBehaviours ==
    { [raises |-> TRUE, cluster |-> 0] }
        \cup { [raises |-> FALSE, cluster |-> n] : n \in MlIds }

\* the entry of `calls` for a predict_single that did not reach the model
NotCalled ==
    [raises |-> FALSE, cluster |-> 0]

(***************************************************************************)
(* Cluster table.                                                          *)
(***************************************************************************)
\* get_cluster_name's list; Python index k is clusters[k + 1] here
clusters ==
    << "Inabanga  Schools", "Clarin Schools", "Tubigon  Schools" >>

\* get_cluster_color's list
colors ==
    << "#0088FE", "#00C49F", "#FFBB28" >>

\* list[k] of Python for a list of length n: negative k counts from the end,
\* anything outside -n .. n-1 raises IndexError
PyIndex(list, k) ==
    IF k >= 0 /\ k < Len(list)
    THEN [raised |-> FALSE, value |-> list[k + 1]]
    ELSE IF k < 0 /\ k >= 0 - Len(list)
         THEN [raised |-> FALSE, value |-> list[Len(list) + k + 1]]
         ELSE [raised |-> TRUE, value |-> "list index out of range"]

get_cluster_name(cluster_id) ==
    IF cluster_id < Len(clusters)
    THEN PyIndex(clusters, cluster_id)
    ELSE [raised |-> FALSE, value |-> "Cluster " \o ToString(cluster_id)]

get_cluster_color(cluster_id) ==
    PyIndex(colors, cluster_id % Len(colors))

(***************************************************************************)
(* The classifiers.  A classifier returns the pair (cluster, model_used);  *)
(* none says that the first component is None.                             *)
(***************************************************************************)
\* clean_text is total on str and its value goes only to the external
\* vectorizer, whose behaviour b is arbitrary: it cannot raise before the call
predict_single_ml(school, b) ==
    IF b.raises
    THEN [none |-> TRUE,  cluster |-> 0,         model_used |-> "ml_failed"]
    ELSE [none |-> FALSE, cluster |-> b.cluster, model_used |-> "ml"]

\* faulty variant of predict_single_rule: the cluster-2 keywords are tested first
predict_single_rule_swapped(school) ==
    LET text == lower(school.name \o <<" ">> \o school.municipality)
    IN  IF Contains(text, KW_tubigon) \/ Contains(text, KW_cawayanan)
             \/ Contains(text, KW_cabulijan)
        THEN [none |-> FALSE, cluster |-> 2, model_used |-> "rule_based"]
        ELSE IF Contains(text, KW_inabanga) \/ Contains(text, KW_dagohoy)
             THEN [none |-> FALSE, cluster |-> 0, model_used |-> "rule_based"]
             ELSE [none |-> FALSE, cluster |-> 1, model_used |-> "rule_based"]

predict_single_rule(school) ==
    LET text == lower(school.name \o <<" ">> \o school.municipality)
    IN  IF Contains(text, KW_inabanga) \/ Contains(text, KW_dagohoy)
        THEN [none |-> FALSE, cluster |-> 0, model_used |-> "rule_based"]
        ELSE IF Contains(text, KW_tubigon) \/ Contains(text, KW_cawayanan)
                  \/ Contains(text, KW_cabulijan)
             THEN [none |-> FALSE, cluster |-> 2, model_used |-> "rule_based"]
             ELSE [none |-> FALSE, cluster |-> 1, model_used |-> "rule_based"]

(***************************************************************************)
(* predict_single.  The value is the returned dict together with the       *)
(* classifiers the call invoked, in order.                                 *)
(***************************************************************************)
\* the dict of the try branch
SuccessOutcome(school, cluster, name, color, model_used) ==
    [ school        |-> OrUnknown(school.name),
      municipality  |-> OrUnknown(school.municipality),
      cluster_id    |-> cluster,
      cluster_name  |-> name,
      cluster_color |-> color,
      model_used    |-> model_used,
      success       |-> TRUE,
      timestamp     |-> "time.time()" ]

\* the dict of the except branch
ErrorOutcome(school, message) ==
    [ school        |-> OrUnknown(school.name),
      municipality  |-> OrUnknown(school.municipality),
      error         |-> message,
      success       |-> FALSE,
      model_used    |-> "error" ]

\* lines 105-114 for the pair a classifier produced: the two lookups, then the
\* dict; a lookup that raises lands in the except branch
BuildOutcome(school, pick) ==
    LET name  == get_cluster_name(pick.cluster)
        color == get_cluster_color(pick.cluster)
    IN  IF name.raised THEN ErrorOutcome(school, name.value)
        ELSE IF color.raised THEN ErrorOutcome(school, color.value)
        ELSE SuccessOutcome(school, pick.cluster, name.value, color.value,
                            pick.model_used)

\* faulty variant of predict_single: the lookup's IndexError is not caught
predict_single_uncaught(school, b) ==
    LET ml   == predict_single_ml(school, b)
        rule == predict_single_rule(school)
        pick == IF MODEL_LOADED = "True" /\ ~ml.none THEN ml ELSE rule
        name == get_cluster_name(pick.cluster)
    IN  [ outcome |-> IF name.raised
                      THEN [exception |-> "IndexError", message |-> name.value]
                      ELSE BuildOutcome(school, pick),
          called  |-> IF MODEL_LOADED # "True" THEN << "predict_single_rule" >>
                      ELSE IF ml.none
                           THEN << "predict_single_ml", "predict_single_rule" >>
                           ELSE << "predict_single_ml" >> ]

\* faulty variant of predict_single: the fallback keeps the tag of the failed
\* ML call
predict_single_keeps_tag(school, b) ==
    LET ml   == predict_single_ml(school, b)
        rule == predict_single_rule(school)
        pick == IF MODEL_LOADED = "True"
                THEN IF ml.none THEN [rule EXCEPT !.model_used = ml.model_used]
                     ELSE ml
                ELSE rule
    IN  [ outcome |-> BuildOutcome(school, pick),
          called  |-> IF MODEL_LOADED # "True" THEN << "predict_single_rule" >>
                      ELSE IF ml.none
                           THEN << "predict_single_ml", "predict_single_rule" >>
                           ELSE << "predict_single_ml" >> ]

predict_single(school, b) ==
    IF MODEL_LOADED = "unbound"
    THEN \* reading the unbound global raises NameError inside the try
         [ outcome |-> ErrorOutcome(school, "name 'MODEL_LOADED' is not defined"),
           called  |-> << >> ]
    ELSE IF MODEL_LOADED = "True"
    THEN LET ml == predict_single_ml(school, b)
         IN  IF ml.none
             THEN [ outcome |-> BuildOutcome(school, predict_single_rule(school)),
                    called  |-> << "predict_single_ml", "predict_single_rule" >> ]
             ELSE [ outcome |-> BuildOutcome(school, ml),
                    called  |-> << "predict_single_ml" >> ]
    ELSE [ outcome |-> BuildOutcome(school, predict_single_rule(school)),
           called  |-> << "predict_single_rule" >> ]

\* the record `calls` keeps of one predict_single call: its argument, what
\* the external model did (NotCalled if it was not reached), the classifiers
\* invoked and the value returned
CallRecord(school, b, run) ==
    [ school  |-> school,
      ml      |-> IF \E i \in 1..Len(run.called) : run.called[i] = "predict_single_ml"
                  THEN b ELSE NotCalled,
      called  |-> run.called,
      outcome |-> run.outcome ]

(***************************************************************************)
(* get_cluster_batch's arithmetic.                                         *)
(***************************************************************************)
\* cluster_counts = {0: 0, 1: 0, 2: 0}
ZeroCounts ==
    [k \in {0, 1, 2} |-> 0]

\* the keys of cluster_counts in insertion order, the order of .items()
DictKeys ==
    << 0, 1, 2 >>

\* faulty variant of SuccessfulAfter: a failed outcome is counted too
SuccessfulAfter_all(n, result) ==
    n + 1

\* if result["success"]: successful += 1
SuccessfulAfter(n, result) ==
    IF result.success THEN n + 1 ELSE n

\* faulty variant of list_append: the new result is put in front
list_append_front(list, result) ==
    << result >> \o list

\* results.append(result)
list_append(list, result) ==
    Append(list, result)

\* n / d rounded to the nearest integer, a tie going to the even neighbour
RoundHalfEven(n, d) ==
    LET q == n \div d
        r == n % d
    IN  IF 2 * r < d THEN q
        ELSE IF 2 * r > d THEN q + 1
        ELSE IF q % 2 = 0 THEN q ELSE q + 1

\* faulty variant of percentage: the tenth is cut off, not rounded
percentage_truncated(count, n) ==
    IF n > 0 THEN (1000 * count) \div n ELSE 0

\* round((count / successful * 100) if successful > 0 else 0, 1), in tenths of
\* a percent.  round(x, 1) yields the tenth nearest to the double x; for
\* successful < 16 the quotient 1000*count/successful is an integer or at least
\* 1/30 away from a tie, far more than the error of the two float operations,
\* so the tenth nearest to the exact quotient is the result.
percentage(count, n) ==
    IF n > 0 THEN RoundHalfEven(1000 * count, n) ELSE 0

\* max(..., key=count) over the keys of `keys` from position i on, best so far
\* `best`: Python's max keeps the first of several maximal items
RECURSIVE MaxFrom(_, _, _, _)
MaxFrom(counts, keys, i, best) ==
    IF i > Len(keys) THEN best
    ELSE MaxFrom(counts, keys, i + 1,
                 IF counts[keys[i]] > counts[best] THEN keys[i] ELSE best)

\* faulty variant of MaxFrom: a later item with an equal count replaces the
\* best so far
RECURSIVE MaxFromLast(_, _, _, _)
MaxFromLast(counts, keys, i, best) ==
    IF i > Len(keys) THEN best
    ELSE MaxFromLast(counts, keys, i + 1,
                     IF counts[keys[i]] >= counts[best] THEN keys[i] ELSE best)

\* faulty variant of dominant, built on MaxFromLast
dominant_last(counts) ==
    MaxFromLast(counts, DictKeys, 2, DictKeys[1])

\* max(cluster_counts.items(), key=lambda x: x[1])[0] if cluster_counts else 1
dominant(counts) ==
    IF Len(DictKeys) = 0 THEN 1 ELSE MaxFrom(counts, DictKeys, 2, DictKeys[1])

\* the "summary" dict; processing_time_seconds and performance hold wall-clock
\* readings and are left out; percentage is in tenths of a percent
Summary(res, counts, nsucc) ==
    [ total_schools          |-> Len(res),
      successful_predictions |-> nsucc,
      failed_predictions     |-> Len(res) - nsucc,
      clusters               |->
          [ i \in 1..3 |->
              [ id         |-> i - 1,
                name       |-> get_cluster_name(i - 1).value,
                count      |-> counts[i - 1],
                percentage |-> percentage(counts[i - 1], nsucc),
                color      |-> get_cluster_color(i - 1).value ] ],
      dominant_cluster       |-> dominant(counts),
      dominant_cluster_name  |-> get_cluster_name(dominant(counts)).value,
      model_used             |-> IF MODEL_LOADED = "True" THEN "ml" ELSE "rule_based" ]

(***************************************************************************)
(* Startup: the module body, lines 24-35.                                  *)
(***************************************************************************)
NoRequest ==
    [kind |-> "none", schools |-> << >>]

NoResponse ==
    [kind |-> "none"]

Init ==
    /\ pc = "load_model"
    /\ model = "unbound"
    /\ vectorizer = "unbound"
    /\ MODEL_LOADED = "unbound"
    /\ flagWrites = << >>
    /\ request = NoRequest
    /\ calls = << >>
    /\ results = << >>
    /\ cluster_counts = ZeroCounts
    /\ successful = 0
    /\ response = NoResponse

\* line 25: joblib.load('kmeans_model.pkl') returns or raises
LoadModel ==
    /\ pc = "load_model"
    /\ \E ok \in BOOLEAN :
          /\ model' = IF ok THEN "loaded" ELSE model
          /\ pc' = IF ok THEN "load_vectorizer" ELSE "except"
    /\ UNCHANGED << vectorizer, MODEL_LOADED, flagWrites, request, calls,
                    results, cluster_counts, successful, response >>

\* line 26: joblib.load('tfidf_vectorizer.pkl') returns or raises
LoadVectorizer ==
    /\ pc = "load_vectorizer"
    /\ \E ok \in BOOLEAN :
          /\ vectorizer' = IF ok THEN "loaded" ELSE vectorizer
          /\ pc' = IF ok THEN "set_flag" ELSE "except"
    /\ UNCHANGED << model, MODEL_LOADED, flagWrites, request, calls,
                    results, cluster_counts, successful, response >>

\* line 27: MODEL_LOADED = True
SetFlag ==
    /\ pc = "set_flag"
    /\ MODEL_LOADED' = "True"
    /\ flagWrites' = Append(flagWrites, "True")
    /\ pc' = "report"
    /\ UNCHANGED << model, vectorizer, request, calls,
                    results, cluster_counts, successful, response >>

\* lines 28-31, still inside the try: the report reads model.n_clusters and
\* calls vectorizer.get_feature_names_out() on the loaded objects, which
\* returns or raises (an object without the attribute raises AttributeError)
Report ==
    /\ pc = "report"
    /\ \E ok \in BOOLEAN :
          pc' = IF ok THEN "idle" ELSE "except"
    /\ UNCHANGED << model, vectorizer, MODEL_LOADED, flagWrites, request, calls,
                    results, cluster_counts, successful, response >>

\* lines 32-35: except Exception: MODEL_LOADED = False; the process goes on
Except ==
    /\ pc = "except"
    /\ MODEL_LOADED' = "False"
    /\ flagWrites' = Append(flagWrites, "False")
    /\ pc' = "idle"
    /\ UNCHANGED << model, vectorizer, request, calls,
                    results, cluster_counts, successful, response >>

(***************************************************************************)
(* Request handlers.  The handlers are coroutines without an await, so the *)
(* event loop runs each to its end before it takes the next request; the   *)
(* server starts (line 287) after the module body has run.                 *)
(***************************************************************************)
\* GET /
root ==
    /\ pc = "idle"
    /\ request' = [kind |-> "root", schools |-> << >>]
    /\ calls' = << >>
    /\ response' = [ model_loaded   |-> MODEL_LOADED,
                     total_clusters |-> Len(clusters) ]
    /\ pc' = "responded"
    /\ UNCHANGED << model, vectorizer, MODEL_LOADED, flagWrites,
                    results, cluster_counts, successful >>

\* GET /health
health_check ==
    /\ pc = "idle"
    /\ request' = [kind |-> "health", schools |-> << >>]
    /\ calls' = << >>
    /\ response' = [ status       |-> IF MODEL_LOADED = "True" THEN "healthy"
                                      ELSE "degraded",
                     model_loaded |-> MODEL_LOADED,
                     clusters     |->
                         [ i \in 1..3 |->
                             [ id    |-> i - 1,
                               name  |-> get_cluster_name(i - 1).value,
                               color |-> get_cluster_color(i - 1).value ] ] ]
    /\ pc' = "responded"
    /\ UNCHANGED << model, vectorizer, MODEL_LOADED, flagWrites,
                    results, cluster_counts, successful >>

\* POST /cluster
get_cluster(school, b) ==
    /\ pc = "idle"
    /\ LET run == predict_single(school, b)
       IN  /\ request' = [kind |-> "cluster", schools |-> << school >>]
           /\ calls' = << CallRecord(school, b, run) >>
           /\ response' = run.outcome
    /\ pc' = "responded"
    /\ UNCHANGED << model, vectorizer, MODEL_LOADED, flagWrites,
                    results, cluster_counts, successful >>

\* GET /test, lines 248-255: the four sample records, an empty results list
test_endpoint ==
    /\ pc = "idle"
    /\ request' = [kind |-> "test", schools |-> test_schools]
    /\ calls' = << >>
    /\ results' = << >>
    /\ pc' = "test_loop"
    /\ UNCHANGED << model, vectorizer, MODEL_LOADED, flagWrites,
                    cluster_counts, successful, response >>

\* one iteration of its loop, lines 256-259
test_iteration(b) ==
    /\ pc = "test_loop"
    /\ Len(results) < Len(request.schools)
    /\ LET school == request.schools[Len(results) + 1]
           run    == predict_single(school, b)
       IN  /\ calls' = Append(calls, CallRecord(school, b, run))
           /\ results' = list_append(results, run.outcome)
    /\ UNCHANGED << pc, model, vectorizer, MODEL_LOADED, flagWrites, request,
                    cluster_counts, successful, response >>

\* lines 261-265
test_return ==
    /\ pc = "test_loop"
    /\ Len(results) = Len(request.schools)
    /\ response' = [ test_results |-> results,
                     model_status |-> IF MODEL_LOADED = "True" THEN "loaded"
                                      ELSE "rule_based_fallback",
                     message      |-> "Test completed successfully" ]
    /\ results' = << >>
    /\ pc' = "responded"
    /\ UNCHANGED << model, vectorizer, MODEL_LOADED, flagWrites, request, calls,
                    cluster_counts, successful >>

\* POST /cluster-batch, lines 172-184: the empty batch is answered at once,
\* any other batch enters the loop
get_cluster_batch(schools) ==
    /\ pc = "idle"
    /\ request' = [kind |-> "batch", schools |-> schools]
    /\ calls' = << >>
    /\ IF Len(schools) = 0
       THEN /\ response' = [error |-> "No schools provided", success |-> FALSE]
            /\ pc' = "responded"
            /\ UNCHANGED << results, cluster_counts, successful >>
       ELSE /\ results' = << >>
            /\ cluster_counts' = ZeroCounts
            /\ successful' = 0
            /\ pc' = "batch_loop"
            /\ UNCHANGED response
    /\ UNCHANGED << model, vectorizer, MODEL_LOADED, flagWrites >>

\* one iteration of the loop, lines 186-192.  cluster_counts[...] += 1 on a
\* key the dict does not hold raises KeyError, which nothing in the handler
\* catches: the handler ends with its locals gone.
batch_iteration(b) ==
    /\ pc = "batch_loop"
    /\ Len(results) < Len(request.schools)
    /\ LET school == request.schools[Len(results) + 1]
           run    == predict_single(school, b)
           result == run.outcome
       IN  /\ calls' = Append(calls, CallRecord(school, b, run))
           /\ IF result.success /\ result.cluster_id \notin DOMAIN cluster_counts
              THEN /\ response' = [ exception |-> "KeyError",
                                    key       |-> result.cluster_id ]
                   /\ pc' = "responded"
                   /\ results' = << >>
                   /\ cluster_counts' = ZeroCounts
                   /\ successful' = 0
              ELSE /\ results' = list_append(results, result)
                   /\ successful' = SuccessfulAfter(successful, result)
                   /\ cluster_counts' =
                         IF result.success
                         THEN [cluster_counts EXCEPT ![result.cluster_id] = @ + 1]
                         ELSE cluster_counts
                   /\ pc' = "batch_loop"
                   /\ UNCHANGED response
    /\ UNCHANGED << model, vectorizer, MODEL_LOADED, flagWrites, request >>

\* after the loop, lines 194-243: the statistics and the returned dict
batch_return ==
    /\ pc = "batch_loop"
    /\ Len(results) = Len(request.schools)
    /\ response' = [ results |-> results,
                     summary |-> Summary(results, cluster_counts, successful) ]
    /\ pc' = "responded"
    /\ results' = << >>
    /\ cluster_counts' = ZeroCounts
    /\ successful' = 0
    /\ UNCHANGED << model, vectorizer, MODEL_LOADED, flagWrites, request, calls >>

\* the response is sent; nothing of the request stays in the process
Sent ==
    /\ pc = "responded"
    /\ pc' = "idle"
    /\ request' = NoRequest
    /\ calls' = << >>
    /\ response' = NoResponse
    /\ UNCHANGED << model, vectorizer, MODEL_LOADED, flagWrites,
                    results, cluster_counts, successful >>

Next ==
    \/ LoadModel
    \/ LoadVectorizer
    \/ SetFlag
    \/ Report
    \/ Except
    \/ root
    \/ health_check
    \/ \E school \in School, b \in MLBehaviours : get_cluster(school, b)
    \/ test_endpoint
    \/ \E b \in MLBehaviours : test_iteration(b)
    \/ test_return
    \/ \E schools \in BatchRequest : get_cluster_batch(schools)
    \/ \E b \in MLBehaviours : batch_iteration(b)
    \/ batch_return
    \/ Sent

Spec ==
    Init /\ [][Next]_vars

(***************************************************************************)
(* Properties.                                                             *)
(***************************************************************************)
Serving ==
    pc \in {"idle", "batch_loop", "test_loop", "responded"}

MlInvoked(c) ==
    \E i \in 1..Len(c.called) : c.called[i] = "predict_single_ml"

RuleInvoked(c) ==
    \E i \in 1..Len(c.called) : c.called[i] = "predict_single_rule"

ClusterFields ==
    {"cluster_id", "cluster_name", "cluster_color"}

\* a batch request was answered with results and a summary
BatchAnswered ==
    /\ pc = "responded"
    /\ request.kind = "batch"
    /\ "summary" \in DOMAIN response

SuccessCount(res) ==
    Cardinality({ i \in 1..Len(res) : res[i].success })

ClusterCount(res, k) ==
    Cardinality({ i \in 1..Len(res) : res[i].success /\ res[i].cluster_id = k })

Abs(x) ==
    IF x < 0 THEN 0 - x ELSE x

\* C1: every outcome predict_single returns has success = true if and only if
\* it carries a cluster_id in {0,1,2} with the non-empty name and colour the
\* 3-entry cluster table binds to that id.
C1_SuccessIffValidCluster ==
    \A i \in 1..Len(calls) :
        LET o == calls[i].outcome
        IN  o.success <=>
               /\ ClusterFields \subseteq DOMAIN o
               /\ o.cluster_id \in {0, 1, 2}
               /\ o.cluster_name = clusters[o.cluster_id + 1]
               /\ o.cluster_color = colors[o.cluster_id + 1]
               /\ o.cluster_name # ""
               /\ o.cluster_color # ""

\* C2: a non-empty batch is always answered with a results sequence holding
\* one outcome per input record plus a summary, never with an exception.
C2_BatchNeverAborts ==
    (pc = "responded" /\ request.kind = "batch" /\ Len(request.schools) >= 1)
        => /\ {"results", "summary"} \subseteq DOMAIN response
           /\ Len(response.results) = Len(request.schools)

\* C3: predict_single always returns an outcome (no exception escapes), and an
\* outcome with success = false has model_used = "error", an error message and
\* none of cluster_id, cluster_name, cluster_color.
C3_TotalAndErrorShape ==
    \A i \in 1..Len(calls) :
        LET o == calls[i].outcome
        IN  /\ {"success", "model_used", "school", "municipality"} \subseteq DOMAIN o
            /\ ~o.success =>
                  /\ o.model_used = "error"
                  /\ "error" \in DOMAIN o
                  /\ DOMAIN o \cap ClusterFields = {}

C3_Witness ==
    /\ pc = "responded"
    /\ request.kind = "cluster"
    /\ Len(calls) = 1
    /\ ~calls[1].outcome.success
    /\ response = calls[1].outcome

\* C4 as claimed: model available and the ML call returns an id => that id with
\* model_used "ml"; ML call fails or model unavailable => the rule's id with
\* model_used "rule_based"; no ML call when unavailable; never "ml_failed".
C4_FallbackAsClaimed ==
    \A i \in 1..Len(calls) :
        LET c == calls[i]
            o == c.outcome
        IN  /\ (MODEL_LOADED = "True" /\ MlInvoked(c) /\ ~c.ml.raises)
                  => /\ "cluster_id" \in DOMAIN o
                     /\ o.model_used = "ml"
                     /\ o.cluster_id = c.ml.cluster
            /\ ((MODEL_LOADED = "True" /\ MlInvoked(c) /\ c.ml.raises)
                    \/ MODEL_LOADED = "False")
                  => /\ "cluster_id" \in DOMAIN o
                     /\ o.model_used = "rule_based"
                     /\ o.cluster_id = predict_single_rule(c.school).cluster
            /\ MODEL_LOADED = "False" => ~MlInvoked(c)
            /\ o.model_used # "ml_failed"

\* C4 (amended): as claimed for an id the name lookup accepts (id >= -3); for
\* an id below -3 the lookup raises IndexError and the outcome is the error
\* outcome (success = false, model_used = "error", no cluster_id).
C4_Fallback ==
    \A i \in 1..Len(calls) :
        LET c == calls[i]
            o == c.outcome
        IN  /\ (MODEL_LOADED = "True" /\ MlInvoked(c) /\ ~c.ml.raises
                    /\ c.ml.cluster >= 0 - Len(clusters))
                  => /\ "cluster_id" \in DOMAIN o
                     /\ o.model_used = "ml"
                     /\ o.cluster_id = c.ml.cluster
            /\ (MODEL_LOADED = "True" /\ MlInvoked(c) /\ ~c.ml.raises
                    /\ c.ml.cluster < 0 - Len(clusters))
                  => /\ ~o.success
                     /\ o.model_used = "error"
                     /\ "cluster_id" \notin DOMAIN o
            /\ MODEL_LOADED = "True" => MlInvoked(c)
            /\ ((MODEL_LOADED = "True" /\ MlInvoked(c) /\ c.ml.raises)
                    \/ MODEL_LOADED = "False")
                  => /\ "cluster_id" \in DOMAIN o
                     /\ o.model_used = "rule_based"
                     /\ o.cluster_id = predict_single_rule(c.school).cluster
            /\ MODEL_LOADED = "False" => ~MlInvoked(c)
            /\ o.model_used # "ml_failed"

\* one request in which the model answered an id, answered an id below -3 and
\* raised
C4_Witness ==
    /\ pc = "responded"
    /\ request.kind = "test"
    /\ MODEL_LOADED = "True"
    /\ Len(calls) = Len(test_schools)
    /\ ~calls[1].ml.raises /\ calls[1].outcome.model_used = "ml"
    /\ ~calls[2].ml.raises /\ calls[2].ml.cluster < 0 - Len(clusters)
    /\ calls[2].outcome.model_used = "error"
    /\ calls[3].ml.raises /\ calls[3].outcome.model_used = "rule_based"
    /\ calls[3].outcome.cluster_id = 0

\* C5: after every iteration of the batch loop, and in the summary of every
\* completed batch: successful is the number of outcomes with success = true,
\* the three cluster counts count the successful outcomes of each id and sum
\* to successful, total_schools is the number of input records and
\* successful_predictions + failed_predictions = total_schools.
C5_CountersMatchOutcomes ==
    /\ pc = "batch_loop" =>
          /\ successful = SuccessCount(results)
          /\ \A k \in DOMAIN cluster_counts :
                cluster_counts[k] = ClusterCount(results, k)
          /\ cluster_counts[0] + cluster_counts[1] + cluster_counts[2] = successful
    /\ BatchAnswered =>
          LET sm == response.summary
          IN  /\ sm.total_schools = Len(request.schools)
              /\ sm.successful_predictions + sm.failed_predictions = sm.total_schools
              /\ sm.successful_predictions = SuccessCount(response.results)
              /\ sm.clusters[1].count + sm.clusters[2].count + sm.clusters[3].count
                    = sm.successful_predictions
              /\ \A i \in 1..3 :
                    sm.clusters[i].count = ClusterCount(response.results, i - 1)

C5_Witness ==
    /\ BatchAnswered
    /\ response.summary.total_schools = 3
    /\ response.summary.failed_predictions = 1
    /\ response.summary.clusters[1].count = 1
    /\ response.summary.clusters[3].count = 1

\* C6: in every batch summary each percentage (kept in tenths of a percent) is
\* a tenth nearest to 100 * count / successful_predictions and lies in
\* [0,100]; with successful_predictions = 0 all three are 0; otherwise the
\* three sum to 100 within 0.3.
C6_Percentages ==
    BatchAnswered =>
        LET sm == response.summary
            n  == sm.successful_predictions
        IN  /\ \A i \in 1..3 :
                  /\ sm.clusters[i].percentage >= 0
                  /\ sm.clusters[i].percentage <= 1000
                  /\ n = 0 => sm.clusters[i].percentage = 0
                  /\ n > 0 =>
                        2 * Abs(sm.clusters[i].percentage * n
                                  - 1000 * sm.clusters[i].count) <= n
            /\ n > 0 =>
                  Abs(sm.clusters[1].percentage + sm.clusters[2].percentage
                        + sm.clusters[3].percentage - 1000) <= 3

\* 33.3 + 33.3 + 33.3 = 99.9
C6_Witness ==
    /\ BatchAnswered
    /\ response.summary.successful_predictions = 3
    /\ \A i \in 1..3 : response.summary.clusters[i].percentage = 333

\* C7: dominant_cluster is an id in {0,1,2} whose count is the maximum of the
\* three counts, and the lowest such id.
C7_DominantCluster ==
    BatchAnswered =>
        LET sm == response.summary
            d  == sm.dominant_cluster
        IN  /\ d \in {0, 1, 2}
            /\ \A i \in 1..3 : sm.clusters[i].count <= sm.clusters[d + 1].count
            /\ \A i \in 1..3 :
                  sm.clusters[i].id < d
                      => sm.clusters[i].count < sm.clusters[d + 1].count
            /\ sm.dominant_cluster_name = clusters[d + 1]

\* counts {0: 2, 1: 2, 2: 0}: ids 0 and 1 share the maximum, 0 is reported
C7_Witness ==
    /\ BatchAnswered
    /\ response.summary.clusters[1].count = 2
    /\ response.summary.clusters[2].count = 2
    /\ response.summary.clusters[3].count = 0
    /\ response.summary.dominant_cluster = 0

\* ids 1 and 2 share the maximum, id 0 is below it: 1 is reported
C7_WitnessUpperTie ==
    /\ BatchAnswered
    /\ response.summary.clusters[1].count = 0
    /\ response.summary.clusters[2].count = 1
    /\ response.summary.clusters[3].count = 1
    /\ response.summary.dominant_cluster = 1

\* every prediction of the batch failed: all counts 0, dominant_cluster 0
C7_WitnessAllFailed ==
    /\ BatchAnswered
    /\ response.summary.successful_predictions = 0
    /\ response.summary.dominant_cluster = 0

\* C8: whenever predict_single_rule classifies a record, the result is 0 if
\* the lower-cased "name municipality" contains "inabanga" or "dagohoy", else
\* 2 if it contains "tubigon", "cawayanan" or "cabulijan", else 1, always with
\* status "rule_based".
C8_RulePriority ==
    \A i \in 1..Len(calls) :
        RuleInvoked(calls[i]) =>
            LET c    == calls[i]
                o    == c.outcome
                text == lower(c.school.name \o <<" ">> \o c.school.municipality)
                has0 == \E kw \in {KW_inabanga, KW_dagohoy} : Contains(text, kw)
                has2 == \E kw \in {KW_tubigon, KW_cawayanan, KW_cabulijan} :
                            Contains(text, kw)
            IN  /\ o.success
                /\ o.model_used = "rule_based"
                /\ o.cluster_id \in {0, 1, 2}
                /\ has0 => o.cluster_id = 0
                /\ (~has0 /\ has2) => o.cluster_id = 2
                /\ (~has0 /\ ~has2) => o.cluster_id = 1

\* a record with keywords of both sets, classified 0 by the rule
C8_Witness ==
    /\ pc = "responded"
    /\ request.kind = "cluster"
    /\ MODEL_LOADED = "False"
    /\ request.schools[1] = [name |-> N_Both, municipality |-> M_TUBIGON]
    /\ response.cluster_id = 0
    /\ response.model_used = "rule_based"

\* C9: MODEL_LOADED is written exactly once during startup, true if both
\* artifacts load and false otherwise, and the server serves only after it.
C9_FlagWrittenOnce ==
    /\ Len(flagWrites) <= 1
    /\ Serving =>
          /\ Len(flagWrites) = 1
          /\ MODEL_LOADED = "True" <=> (model = "loaded" /\ vectorizer = "loaded")

\* C9, the part that holds: no request changes MODEL_LOADED or the artifacts.
C9_ReadOnlyWhileServing ==
    [][Serving => /\ MODEL_LOADED' = MODEL_LOADED
                  /\ model' = model
                  /\ vectorizer' = vectorizer
                  /\ flagWrites' = flagWrites]_vars

\* C10: in the batch loop and in the answer of a completed batch, results[i] is
\* the outcome of predict_single on the i-th input record, with the record's
\* name and municipality ("Unknown" for an empty field); a completed batch has
\* as many results as records; the empty batch is answered
\* {error: "No schools provided", success: false} without any predict_single.
C10_OrderPreserved ==
    LET Matches(res) ==
            /\ Len(res) = Len(calls)
            /\ Len(res) <= Len(request.schools)
            /\ \A i \in 1..Len(res) :
                  /\ calls[i].school = request.schools[i]
                  /\ res[i] = predict_single(request.schools[i], calls[i].ml).outcome
                  /\ res[i].school = OrUnknown(request.schools[i].name)
                  /\ res[i].municipality = OrUnknown(request.schools[i].municipality)
    IN  /\ pc = "batch_loop" => Matches(results)
        /\ BatchAnswered =>
              /\ Matches(response.results)
              /\ Len(response.results) = Len(request.schools)
        /\ (pc = "responded" /\ request.kind = "batch" /\ Len(request.schools) = 0)
              => /\ response = [error |-> "No schools provided", success |-> FALSE]
                 /\ calls = << >>

\* a completed batch of three records whose neighbours differ, the middle one
\* with empty fields
C10_Witness ==
    /\ BatchAnswered
    /\ Len(response.results) = 3
    /\ request.schools[1] # request.schools[2]
    /\ request.schools[2] # request.schools[3]
    /\ request.schools[2].name = << >>
    /\ response.results[1].school = N_Dagohoy
    /\ response.results[2].school = Unknown
    /\ response.results[2].municipality = Unknown
    /\ response.results[3].municipality = M_GON

====
